---- MODULE Spec2Model ----
(***************************************************************************)
(* Register allocation by greedy graph colouring (program.py).             *)
(*                                                                         *)
(* main(input, output) reads an interference graph from a text file,       *)
(* ranks the nodes by descending neighbour count, colours them greedily    *)
(* with the letters 'A'..'Z' and writes "<id><colour>" lines.              *)
(*                                                                         *)
(* Text is modelled as sequences of one-character strings, so that         *)
(* strip/split/int/isdigit and the decimal formatting of the output are    *)
(* computed character by character as Python computes them.                *)
(***************************************************************************)
EXTENDS Integers, Sequences, FiniteSets, TLC

\* ------------------------------------------------------------------ bounds

\* Number of lines of the input files enumerated with arbitrary neighbour
\* lists; their neighbour ids range over 1..MaxLines+1.
MaxLines == 2

\* Number of nodes of the input files enumerated from undirected graphs.
MaxUndirected == 4

\* ------------------------------------------------------- program constants

MinNode == 1
MaxNode == 50

\* colours = [chr(i) for i in range(ord('A'), ord('Z') + 1)]
colours ==
  << "A", "B", "C", "D", "E", "F", "G", "H", "I", "J", "K", "L", "M",
     "N", "O", "P", "Q", "R", "S", "T", "U", "V", "W", "X", "Y", "Z" >>

\* dict.get(key) of a missing key
None == "None"

\* ------------------------------------------------------- character classes

Digits == << "0", "1", "2", "3", "4", "5", "6", "7", "8", "9" >>

\* str.isdigit() of one character
IsDigitChar(c) == \E i \in 1..Len(Digits) : Digits[i] = c

\* str.isspace() of one character
IsSpaceChar(c) == c \in {" ", "\n", "\t", "\r"}

DigitVal(c) == CHOOSE v \in 0..9 : Digits[v + 1] = c

\* all(c.isdigit() or c == ',' or c.isspace() for c in line)
ValidChars(line) ==
  \A i \in 1..Len(line) :
    IsDigitChar(line[i]) \/ line[i] = "," \/ IsSpaceChar(line[i])

\* ------------------------------------------------------- string functions

\* str.strip(): what lies between the first and the last character that is
\* not whitespace
Strip(s) ==
  LET solid == {i \in 1..Len(s) : ~IsSpaceChar(s[i])}
  IN  IF solid = {} THEN <<>>
      ELSE SubSeq(s, CHOOSE i \in solid : \A j \in solid : i <= j,
                     CHOOSE i \in solid : \A j \in solid : i >= j)

\* str.split(','): the fields between the commas; one (empty) field for "".
Split(s) ==
  LET commas == {i \in 1..Len(s) : s[i] = ","}
      \* position of the k-th comma; 0 before the first, Len(s)+1 after the last
      at(k)  == IF k = 0 THEN 0
                ELSE IF k > Cardinality(commas) THEN Len(s) + 1
                ELSE CHOOSE i \in commas :
                       Cardinality({j \in commas : j <= i}) = k
  IN  [k \in 1..(Cardinality(commas) + 1) |->
         SubSeq(s, at(k - 1) + 1, at(k) - 1)]

\* str.isdigit(): non-empty and digits only
IsDigitStr(s) == s # <<>> /\ \A i \in 1..Len(s) : IsDigitChar(s[i])

\* int(s) succeeds (no ValueError): surrounding whitespace is ignored, what
\* remains must be a non-empty run of digits.  (A sign or an underscore never
\* reaches int(): the character check of the line rejects them before.)
IntOk(s) == IsDigitStr(Strip(s))

RECURSIVE DigitsValue(_)
DigitsValue(s) ==
  IF s = <<>> THEN 0
  ELSE 10 * DigitsValue(SubSeq(s, 1, Len(s) - 1)) + DigitVal(s[Len(s)])

\* int(s), for IntOk(s)
ToInt(s) == DigitsValue(Strip(s))

\* f"{node}": the decimal digits of a natural number
RECURSIVE Decimal(_)
Decimal(n) ==
  IF n < 10 THEN << Digits[n + 1] >>
  ELSE Decimal(n \div 10) \o << Digits[(n % 10) + 1] >>

\* ------------------------------------------------------------ parse errors

\* The value read_interference_graph_from_file returns instead of a graph: the
\* kind of the message and the ids the message names (0 where it names none).
Err(kind, expected, found) ==
  [kind |-> kind, expected |-> expected, found |-> found]

NoError == Err("none", 0, 0)

IsError(r) == r.kind # "none"

\* Variant of OrderError that reports a gap but lets a repeated id through.
OrderErrorGapOnly(node, expected) ==
  IF node > expected
  THEN Err("OutOfOrderNode", expected, node)
  ELSE NoError

\* if node != expected_node: duplicate when smaller, missing/out of order
\* when greater
OrderError(node, expected) ==
  IF node # expected
  THEN IF node < expected
       THEN Err("DuplicateNode", 0, node)
       ELSE Err("OutOfOrderNode", expected, node)
  ELSE NoError

\* if node < 1 or node > 50
NodeRangeError(node) ==
  IF node < MinNode \/ node > MaxNode
  THEN Err("NodeOutOfRange", 0, 0)
  ELSE NoError

\* neighbors = [int(n) for n in parts[1:] if n.isdigit()]
Neighbors(parts) ==
  LET kept == SelectSeq(Tail(parts), IsDigitStr)
  IN  [i \in 1..Len(kept) |-> ToInt(kept[i])]

\* if any(n < 1 or n > 50 for n in neighbors)
NeighborRangeError(neighbors) ==
  IF \E i \in 1..Len(neighbors) :
       neighbors[i] < MinNode \/ neighbors[i] > MaxNode
  THEN Err("NeighbourOutOfRange", 0, 0)
  ELSE NoError

\* The first of a sequence of checks that reports an error (each "return").
RECURSIVE FirstError(_)
FirstError(checks) ==
  IF checks = <<>> THEN NoError
  ELSE IF IsError(Head(checks)) THEN Head(checks)
  ELSE FirstError(Tail(checks))

\* The body of "for line in lines": the error it returns (or NoError), the
\* declared node and the set of its neighbours.
ParseLineBody(line, expected) ==
  IF ~ValidChars(line) THEN
    [err |-> Err("InvalidCharacter", 0, 0), node |-> 0, nbrs |-> {}]
  ELSE
    LET parts == Split(Strip(line)) IN
    IF ~IntOk(parts[1]) THEN
      [err |-> Err("MalformedInteger", 0, 0), node |-> 0, nbrs |-> {}]
    ELSE
      LET node      == ToInt(parts[1])
          neighbors == Neighbors(parts)
      IN  [err  |-> FirstError(<< OrderError(node, expected),
                                  NodeRangeError(node),
                                  NeighborRangeError(neighbors) >>),
           node |-> node,
           nbrs |-> {neighbors[i] : i \in 1..Len(neighbors)}]

\* ------------------------------------------------------------------ ranking

\* Variant of KeyLess with the count ascending (key (x[2], x[0])).
KeyLessAscending(a, b) == a[3] < b[3] \/ (a[3] = b[3] /\ a[1] < b[1])

\* key=lambda x: (-x[2], x[0]) on (node, neighbours, count): a sorts before b
KeyLess(a, b) == a[3] > b[3] \/ (a[3] = b[3] /\ a[1] < b[1])

RECURSIVE InsertSorted(_, _)
InsertSorted(s, x) ==
  IF s = <<>> THEN << x >>
  ELSE IF KeyLess(x, Head(s)) THEN << x >> \o s
  ELSE << Head(s) >> \o InsertSorted(Tail(s), x)

\* sorted(nodes_info, key=...): stable, ascending in the key
RECURSIVE SortedByKey(_)
SortedByKey(s) ==
  IF s = <<>> THEN <<>>
  ELSE InsertSorted(SortedByKey(SubSeq(s, 1, Len(s) - 1)), s[Len(s)])

\* The keys of a dict of integer keys as a list; the graph's keys were
\* inserted in ascending order, sorted(colour_assignment.items()) is so too.
RECURSIVE Ascending(_)
Ascending(S) ==
  IF S = {} THEN <<>>
  ELSE LET m == CHOOSE x \in S : \A y \in S : x <= y
       IN  << m >> \o Ascending(S \ {m})

rank_nodes_by_neighbours(g) ==
  LET keys       == Ascending(DOMAIN g)
      nodes_info == [i \in 1..Len(keys) |->
                       << keys[i], g[keys[i]], Cardinality(g[keys[i]]) >>]
      sorted     == SortedByKey(nodes_info)
  IN  [i \in 1..Len(sorted) |-> << sorted[i][1], sorted[i][2] >>]

\* ---------------------------------------------------------------- colouring

\* colour_assignment.get(neighbour)
Get(ca, key) == IF key \in DOMAIN ca THEN ca[key] ELSE None

\* Variant of AssignedColours that looks at the neighbours of smaller id only.
AssignedColoursOfSmallerIds(g, ca, node) ==
  {Get(ca, nb) : nb \in {m \in g[node] : m < node}}

\* {colour_assignment.get(neighbour) for neighbour in graph[node]}
AssignedColours(g, ca, node) == {Get(ca, nb) : nb \in g[node]}

\* Variant of FirstUnused that takes the colour after as many colours as
\* there are entries in assigned_colours (colours[len(assigned_colours)]).
FirstUnusedByCount(assigned) ==
  IF Cardinality(assigned) >= Len(colours) THEN 0
  ELSE Cardinality(assigned) + 1

\* for colour in colours: if colour not in assigned_colours: ...; break
\* The index of the colour chosen, 0 when the loop ends without a break.
FirstUnused(assigned) ==
  LET free == {i \in 1..Len(colours) : colours[i] \notin assigned}
  IN  IF free = {} THEN 0
      ELSE CHOOSE i \in free : \A j \in free : i <= j

\* One iteration of "for node, _ in ranked_nodes_with_neighbours"
ColourStep(g, ca, node) ==
  LET k == FirstUnused(AssignedColours(g, ca, node))
  IN  IF k = 0 THEN ca
      ELSE [n \in DOMAIN ca \cup {node} |->
              IF n = node THEN colours[k] ELSE ca[n]]

\* ------------------------------------------------------------------ output

\* f"{node}{colour}\n"
OutputLine(node, colour) == Decimal(node) \o << colour, "\n" >>

\* ------------------------------------------------------------- input files

\* ",<m>" for every m of S, ascending
RECURSIVE NbrText(_)
NbrText(S) ==
  IF S = {} THEN <<>>
  ELSE LET m == CHOOSE x \in S : \A y \in S : x <= y
       IN  << "," >> \o Decimal(m) \o NbrText(S \ {m})

\* The line "<n>,<m1>,...,<mk>\n"
NodeLine(n, S) == Decimal(n) \o NbrText(S) \o << "\n" >>

\* The file whose line i declares node i with the neighbours g[i]
GraphFile(k, g) == [i \in 1..k |-> NodeLine(i, g[i])]

\* Every file of at most MaxLines such lines (the empty file included): edges
\* declared from one endpoint only, self-loops, and neighbour ids that name
\* no declared node are among them.
GraphFiles ==
  UNION { { GraphFile(k, g) : g \in [1..k -> SUBSET (1..(MaxLines + 1))] } :
          k \in 0..MaxLines }

\* The file of the undirected graph on 1..n with the edges E (pairs i < j):
\* every edge is declared from both endpoints.
UndirectedFile(n, E) ==
  GraphFile(n, [i \in 1..n |->
                  {j \in 1..n : << i, j >> \in E \/ << j, i >> \in E}])

UndirectedFiles ==
  UNION { { UndirectedFile(n, E) :
              E \in SUBSET {p \in (1..n) \X (1..n) : p[1] < p[2]} } :
          n \in 1..MaxUndirected }

\* Lines that exercise the parser: ids out of order or out of range, tokens
\* that are empty, padded or malformed, a character outside the format.
OddLines ==
  { << "0", "\n" >>,
    << "1", "\n" >>,
    << "1" >>,
    << "0", "1", "\n" >>,
    << "2", ",", "1", "\n" >>,
    << "5", "1", "\n" >>,
    << "1", ",", "5", "1", "\n" >>,
    << "1", ",", "0", "\n" >>,
    << "1", ",", " ", "2", "\n" >>,
    << "1", ",", ",", "2", "\n" >>,
    << " ", "1", " ", ",", "2", "\n" >>,
    << "1", " ", "2", "\n" >>,
    << ",", "1", "\n" >>,
    << "\n" >>,
    << "1", ",", "x", "\n" >>,
    << "-", "1", "\n" >> }

\* k lines declaring the nodes 1..k without neighbours, then one odd line
OddFiles ==
  { GraphFile(k, [i \in 1..k |-> {}]) \o << l >> :
      k \in 0..MaxLines, l \in OddLines }

\* `1,2,3` / `2,1` / `3,1`
TriangleFile ==
  << << "1", ",", "2", ",", "3", "\n" >>,
     << "2", ",", "1", "\n" >>,
     << "3", ",", "1", "\n" >> >>

\* `1,2,3,4` / `2,1` / `3,1` / `4,1`
StarFile ==
  << << "1", ",", "2", ",", "3", ",", "4", "\n" >>,
     << "2", ",", "1", "\n" >>,
     << "3", ",", "1", "\n" >>,
     << "4", ",", "1", "\n" >> >>

\* n nodes, each adjacent to every other
CliqueFile(n) == GraphFile(n, [i \in 1..n |-> (1..n) \ {i}])

\* One node more than there are colours, and one line more than there are
\* node ids.
LargeFiles ==
  { CliqueFile(Len(colours) + 1),
    GraphFile(MaxNode + 1, [i \in 1..(MaxNode + 1) |-> {}]) }

InputTexts ==
  GraphFiles \cup UndirectedFiles \cup OddFiles
    \cup {TriangleFile, StarFile} \cup LargeFiles

\* A path of the file system: whether a file is there, and its lines.
File(exists, content) == [exists |-> exists, content |-> content]

NoFile == File(FALSE, <<>>)

\* What the output path held before the run.
OldOutput == File(TRUE, << << "1", "Z", "\n" >> >>)

\* ------------------------------------------------------------------- state

VARIABLES
  infile,             \* the input path
  outfile,            \* the output path
  lines,              \* f.readlines()
  idx,                \* position of "for line in lines"
  expected_node,
  graph,
  result,             \* the error string returned by the parser, or NoError
  ranked,             \* ranked_nodes
  cpos,               \* position of "for node, _ in ranked_nodes_with_neighbours"
  colour_assignment,
  wpos,               \* position of the loop of write_output_file
  stdout,             \* what print() has written
  exc,                \* the exception that left main, "none" if none did
  pc

vars ==
  << infile, outfile, lines, idx, expected_node, graph, result, ranked, cpos,
     colour_assignment, wpos, stdout, exc, pc >>

Init ==
  /\ infile \in {File(TRUE, t) : t \in InputTexts} \cup {NoFile}
  /\ outfile \in {NoFile, OldOutput}
  /\ lines = <<>>
  /\ idx = 1
  /\ expected_node = 1
  /\ graph = <<>>
  /\ result = NoError
  /\ ranked = <<>>
  /\ cpos = 1
  /\ colour_assignment = <<>>
  /\ wpos = 1
  /\ stdout = <<>>
  /\ exc = "none"
  /\ pc = "read"

\* ---------------------------------- read_interference_graph_from_file

\* open(filename, "r") raises: except Exception returns "Unexpected error"
ReadFails ==
  /\ pc = "read"
  /\ ~infile.exists
  /\ result' = Err("Unexpected", 0, 0)
  /\ pc' = "report"
  /\ UNCHANGED << infile, outfile, lines, idx, expected_node, graph, ranked,
                  cpos, colour_assignment, wpos, stdout, exc >>

\* lines = f.readlines(); if not lines: return "Error: The file is empty."
ReadLines ==
  /\ pc = "read"
  /\ infile.exists
  /\ lines' = infile.content
  /\ IF infile.content = <<>>
     THEN result' = Err("FileEmpty", 0, 0) /\ pc' = "report"
     ELSE result' = result /\ pc' = "parse"
  /\ UNCHANGED << infile, outfile, idx, expected_node, graph, ranked, cpos,
                  colour_assignment, wpos, stdout, exc >>

\* One iteration of "for line in lines": return the error, or store the node
\* and expect the next one.
ParseLine ==
  /\ pc = "parse"
  /\ idx <= Len(lines)
  /\ LET p == ParseLineBody(lines[idx], expected_node) IN
       IF IsError(p.err)
       THEN /\ result' = p.err
            /\ pc' = "report"
            /\ UNCHANGED << idx, expected_node, graph >>
       ELSE /\ graph' = [n \in DOMAIN graph \cup {p.node} |->
                           IF n = p.node THEN p.nbrs ELSE graph[n]]
            /\ expected_node' = expected_node + 1
            /\ idx' = idx + 1
            /\ UNCHANGED << result, pc >>
  /\ UNCHANGED << infile, outfile, lines, ranked, cpos, colour_assignment,
                  wpos, stdout, exc >>

\* The loop ends: return graph; main goes on to rank the nodes.
ParseDone ==
  /\ pc = "parse"
  /\ idx > Len(lines)
  /\ pc' = "rank"
  /\ UNCHANGED << infile, outfile, lines, idx, expected_node, graph, result,
                  ranked, cpos, colour_assignment, wpos, stdout, exc >>

\* ------------------------------------------------------------------- main

\* Variant of Report without the return: main prints and goes on to rank.
ReportAndGoOn ==
  /\ pc = "report"
  /\ stdout' = Append(stdout, result)
  /\ pc' = "rank"
  /\ UNCHANGED << infile, outfile, lines, idx, expected_node, graph, result,
                  ranked, cpos, colour_assignment, wpos, exc >>

\* if isinstance(graph_or_error, str): print(graph_or_error); return
Report ==
  /\ pc = "report"
  /\ stdout' = Append(stdout, result)
  /\ pc' = "done"
  /\ UNCHANGED << infile, outfile, lines, idx, expected_node, graph, result,
                  ranked, cpos, colour_assignment, wpos, exc >>

\* ranked_nodes = rank_nodes_by_neighbours(graph)
Rank ==
  /\ pc = "rank"
  /\ ranked' = rank_nodes_by_neighbours(graph)
  /\ pc' = "colour"
  /\ UNCHANGED << infile, outfile, lines, idx, expected_node, graph, result,
                  cpos, colour_assignment, wpos, stdout, exc >>

\* One iteration of the loop of assign_colours
ColourNode ==
  /\ pc = "colour"
  /\ cpos <= Len(ranked)
  /\ colour_assignment' = ColourStep(graph, colour_assignment, ranked[cpos][1])
  /\ cpos' = cpos + 1
  /\ UNCHANGED << infile, outfile, lines, idx, expected_node, graph, result,
                  ranked, wpos, stdout, exc, pc >>

\* return colour_assignment; main goes on to write_output_file
ColourDone ==
  /\ pc = "colour"
  /\ cpos > Len(ranked)
  /\ pc' = "write"
  /\ UNCHANGED << infile, outfile, lines, idx, expected_node, graph, result,
                  ranked, cpos, colour_assignment, wpos, stdout, exc >>

\* ------------------------------------------------------ write_output_file

\* sorted(colour_assignment.items())
Items == 
  LET keys == Ascending(DOMAIN colour_assignment)
  IN  [i \in 1..Len(keys) |-> << keys[i], colour_assignment[keys[i]] >>]

\* open(filename, 'w'): the file is created or truncated
OpenOutput ==
  /\ pc = "write"
  /\ outfile' = File(TRUE, <<>>)
  /\ pc' = "writing"
  /\ UNCHANGED << infile, lines, idx, expected_node, graph, result, ranked,
                  cpos, colour_assignment, wpos, stdout, exc >>

\* open(filename, 'w') raises OSError: nothing in main catches it
OpenOutputFails ==
  /\ pc = "write"
  /\ exc' = "OSError"
  /\ pc' = "done"
  /\ UNCHANGED << infile, outfile, lines, idx, expected_node, graph, result,
                  ranked, cpos, colour_assignment, wpos, stdout >>

\* f.write(f"{node}{colour}\n")
WriteLine ==
  /\ pc = "writing"
  /\ wpos <= Len(Items)
  /\ outfile' = File(TRUE, Append(outfile.content,
                                  OutputLine(Items[wpos][1], Items[wpos][2])))
  /\ wpos' = wpos + 1
  /\ UNCHANGED << infile, lines, idx, expected_node, graph, result, ranked,
                  cpos, colour_assignment, stdout, exc, pc >>

\* A write (or the close) raises OSError: the with block closes the file with
\* what was written so far and the exception leaves main.
WriteFails ==
  /\ pc = "writing"
  /\ exc' = "OSError"
  /\ pc' = "done"
  /\ UNCHANGED << infile, outfile, lines, idx, expected_node, graph, result,
                  ranked, cpos, colour_assignment, wpos, stdout >>

\* The with block ends; write_output_file and main return.
CloseOutput ==
  /\ pc = "writing"
  /\ wpos > Len(Items)
  /\ pc' = "done"
  /\ UNCHANGED << infile, outfile, lines, idx, expected_node, graph, result,
                  ranked, cpos, colour_assignment, wpos, stdout, exc >>

Next ==
  \/ ReadFails
  \/ ReadLines
  \/ ParseLine
  \/ ParseDone
  \/ Report
  \/ Rank
  \/ ColourNode
  \/ ColourDone
  \/ OpenOutput
  \/ OpenOutputFails
  \/ WriteLine
  \/ WriteFails
  \/ CloseOutput

Spec == Init /\ [][Next]_vars

\* ------------------------------------------------------------ properties

\* The parser returned a graph.
Accepted ==
  pc \in {"rank", "colour", "write", "writing"}
    \/ (pc = "done" /\ ~IsError(result))

\* assign_colours has returned.
Coloured ==
  pc \in {"write", "writing"} \/ (pc = "done" /\ ~IsError(result))

\* main returned normally after write_output_file completed.
Written == pc = "done" /\ ~IsError(result) /\ exc = "none"

\* The parser returned the error of the line at idx (not of the file as a
\* whole).
LineRejected ==
  /\ pc \in {"report", "done"}
  /\ IsError(result)
  /\ result.kind \notin {"Unexpected", "FileEmpty"}

\* The node token of a line and, where it converts, the declared node id.
NodeToken(line) == Split(Strip(line))[1]

Declares(line) == ValidChars(line) /\ IntOk(NodeToken(line))

DeclaredNode(line) == ToInt(NodeToken(line))

ColoursUsed == {colour_assignment[n] : n \in DOMAIN colour_assignment}

Symmetric(g) ==
  \A n \in DOMAIN g : \A m \in g[n] : m \in DOMAIN g /\ n \in g[m]

NoSelfLoop(g) == \A n \in DOMAIN g : n \notin g[n]

FewNeighbours(g) == \A n \in DOMAIN g : Cardinality(g[n]) < Len(colours)

\* C1: once the colouring of an accepted graph is produced, no node has the
\* colour of a neighbour listed on its line, whether or not the neighbour
\* lists the node in turn.  (Stated for the neighbours other than the node
\* itself: a node that lists itself has its own colour whatever the colourer
\* does.)
C1_NoListedNeighbourSharesColour ==
  Coloured =>
    \A n \in DOMAIN graph : \A m \in graph[n] \ {n} :
      (n \in DOMAIN colour_assignment /\ m \in DOMAIN colour_assignment)
        => colour_assignment[n] # colour_assignment[m]

\* C2: a run in which some node found all 26 colours taken by its neighbours
\* (the node is then left without a colour) ends with a ColourSpaceExhausted
\* error reported.
C2_ExhaustionIsReported ==
  (pc = "done" /\ ~IsError(result)
     /\ \E n \in DOMAIN graph : n \notin DOMAIN colour_assignment)
    => \E i \in 1..Len(stdout) : stdout[i].kind = "ColourSpaceExhausted"

\* C3 (as stated): the input `1,2,3` / `2,1` / `3,1` is coloured
\* 1 -> A, 2 -> B, 3 -> C.
C3_TriangleThreeColours ==
  (infile = File(TRUE, TriangleFile) /\ Coloured)
    => colour_assignment = (1 :> "A" @@ 2 :> "B" @@ 3 :> "C")

\* C3 (amended): the input `1,2,3` / `2,1` / `3,1` is coloured
\* 1 -> A, 2 -> B, 3 -> B: nodes 2 and 3 are not adjacent and both see only
\* the A of node 1.
C3_TriangleTwoColours ==
  (infile = File(TRUE, TriangleFile) /\ Coloured)
    => colour_assignment = (1 :> "A" @@ 2 :> "B" @@ 3 :> "B")

C3_Witness ==
  infile = File(TRUE, TriangleFile) /\ Written /\ Len(outfile.content) = 3

\* C4: a line that declares a node id outside [1, 50], all lines before it
\* having been accepted, is rejected with the node-range error.
C4_NodeOutOfRangeReported ==
  (LineRejected /\ Declares(lines[idx])
     /\ DeclaredNode(lines[idx]) \notin MinNode..MaxNode)
    => result.kind = "NodeOutOfRange"

\* C5: the expected id is 1 plus the number of accepted lines; a line that
\* declares a smaller id is rejected as a duplicate naming that id, a line
\* that declares a greater id as missing/out of order naming the expected and
\* the found id; a first line `2,1` gives OutOfOrderNode(1, 2), two lines
\* declaring node 1 give DuplicateNode(1); a parse succeeds only if line i
\* declares node i.
C5_ExpectedNodeOrder ==
  /\ pc \in {"parse", "report"} /\ lines # <<>>
       => expected_node = idx /\ DOMAIN graph = 1..(idx - 1)
  /\ (LineRejected /\ Declares(lines[idx]))
       => LET node == DeclaredNode(lines[idx]) IN
            /\ node < expected_node
                 => result = Err("DuplicateNode", 0, node)
            /\ node > expected_node
                 => result = Err("OutOfOrderNode", expected_node, node)
  /\ (pc = "done" /\ lines # <<>> /\ lines[1] = << "2", ",", "1", "\n" >>)
       => stdout = << Err("OutOfOrderNode", 1, 2) >>
  /\ (pc = "done" /\ Len(lines) >= 2
        /\ lines[1] = << "1", "\n" >> /\ lines[2] = << "1", "\n" >>)
       => stdout = << Err("DuplicateNode", 0, 1) >>
  /\ Accepted
       => \A i \in 1..Len(lines) :
            Declares(lines[i]) /\ DeclaredNode(lines[i]) = i

C5_Witness ==
  /\ pc = "done"
  /\ Len(lines) >= 2
  /\ lines[2] = << "1", "\n" >>
  /\ stdout = << Err("DuplicateNode", 0, 1) >>

\* C6: once the parser has returned an error, the message is printed and
\* main returns: nothing is ranked, coloured or written, no exception is
\* raised, and the output path holds what it held before the run.
C6_ParseFailureStops ==
  /\ [](IsError(result)
          => /\ pc \in {"report", "done"}
             /\ ranked = <<>> /\ cpos = 1
             /\ colour_assignment = <<>> /\ wpos = 1
             /\ exc = "none"
             /\ outfile \in {NoFile, OldOutput}
             /\ (pc = "done" => stdout = << result >>))
  /\ [][(pc \in {"read", "parse", "report"} \/ IsError(result'))
          => outfile' = outfile]_vars

C6_Witness ==
  /\ pc = "done"
  /\ result.kind = "InvalidCharacter"
  /\ stdout = << result >>
  /\ outfile = OldOutput

\* C7: after a run that parsed and wrote, the output has one line per node of
\* the graph (as many as the input has lines), line i being the decimal id i,
\* one letter of 'A'..'Z' and the newline.
C7_OneLinePerNode ==
  Written =>
    /\ Len(outfile.content) = Len(lines)
    /\ \A i \in 1..Len(outfile.content) :
         \E k \in 1..Len(colours) :
           outfile.content[i] = Decimal(i) \o << colours[k], "\n" >>

\* C8: a run in which reading or writing a file failed ends with the error
\* reported: no exception leaves main and the output path is not left with a
\* part of the output.
C8_IOFailureReported ==
  (pc = "done" /\ (result.kind = "Unexpected" \/ exc # "none"))
    => /\ exc = "none"
       /\ stdout # <<>>
       /\ outfile \in {NoFile, OldOutput}

\* Reference for C9: a precedes b when it has more neighbours, or as many and
\* the smaller id.
RankedBefore(g, a, b) ==
  \/ Cardinality(g[a]) > Cardinality(g[b])
  \/ Cardinality(g[a]) = Cardinality(g[b]) /\ a < b

\* Reference for C9: greedy colouring of the first k nodes of an order, each
\* node taking the first letter no earlier neighbour has.
RECURSIVE RefColouring(_, _, _)
RefColouring(g, order, k) ==
  IF k = 0 THEN <<>>
  ELSE LET prev == RefColouring(g, order, k - 1)
           n    == order[k]
           used == {prev[m] : m \in g[n] \cap DOMAIN prev}
           c    == CHOOSE i \in 1..Len(colours) :
                     /\ colours[i] \notin used
                     /\ \A j \in 1..(i - 1) : colours[j] \in used
       IN  [x \in DOMAIN prev \cup {n} |->
              IF x = n THEN colours[c] ELSE prev[x]]

\* C9: the ranked order lists every node once, by descending neighbour count
\* then ascending id, each with its neighbour set; after each step of the
\* colouring loop the assignment is the reference greedy colouring of the
\* nodes processed so far, for graphs whose nodes have fewer than 26
\* neighbours.
C9_GreedyInRankedOrder ==
  (Accepted /\ pc # "rank" /\ FewNeighbours(graph)) =>
    LET order == [i \in 1..Len(ranked) |-> ranked[i][1]] IN
      /\ Len(ranked) = Cardinality(DOMAIN graph)
      /\ {order[i] : i \in 1..Len(order)} = DOMAIN graph
      /\ \A i \in 1..Len(ranked) : ranked[i][2] = graph[order[i]]
      /\ \A i \in 1..Len(order) : \A j \in (i + 1)..Len(order) :
           RankedBefore(graph, order[i], order[j])
      /\ colour_assignment = RefColouring(graph, order, cpos - 1)

C9_Witness ==
  /\ Written
  /\ FewNeighbours(graph)
  /\ ~Symmetric(graph)
  /\ ranked # <<>> /\ ranked[1][1] # 1
  /\ Cardinality(ColoursUsed) >= 2

\* C10: for an accepted graph that is symmetric, has no self-loop and fewer
\* than 26 neighbours per node, no two adjacent nodes coloured so far share a
\* colour at any step of the loop, every node has a colour when the loop is
\* over, and a colour once assigned is never changed.
C10_ProperColouring ==
  /\ []((Accepted /\ Symmetric(graph) /\ NoSelfLoop(graph)
           /\ FewNeighbours(graph))
          => /\ \A n \in DOMAIN colour_assignment :
                  \A m \in graph[n] \cap DOMAIN colour_assignment :
                    colour_assignment[n] # colour_assignment[m]
             /\ Coloured => DOMAIN colour_assignment = DOMAIN graph)
  /\ [][\A n \in DOMAIN colour_assignment :
          /\ n \in DOMAIN colour_assignment'
          /\ colour_assignment'[n] = colour_assignment[n]]_vars

C10_Witness ==
  /\ Written
  /\ Symmetric(graph) /\ NoSelfLoop(graph) /\ FewNeighbours(graph)
  /\ Cardinality(ColoursUsed) >= 3
  /\ DOMAIN colour_assignment = DOMAIN graph

====
